---- MODULE Spec2Model ----
(***************************************************************************)
(* Model of the mutable Merkle tree of src/src/lib.rs (MerkleTree<D, T>).  *)
(*                                                                         *)
(* State: the two fields of the struct (nodes, leaves), whether the last   *)
(* call unwound with a panic, the build's overflow-checks setting, and a   *)
(* record of the last call.  A panic unwinds out of the call and leaves    *)
(* the fields as they were at the panicking statement; a caller that       *)
(* catches the unwind still holds the tree, so later calls are modelled.   *)
(***************************************************************************)
EXTENDS Integers, Sequences, FiniteSets, TLC

\* ------------------------------------------------------------------ bounds
MaxLeaves == 3          \* insert/push are not issued beyond this many leaves

\* --------------------------------------------------------------- constants
UsizeBits == 16         \* width of usize (16 is the narrowest Rust target)

RECURSIVE Pow2(_)
Pow2(k) == IF k = 0 THEN 1 ELSE 2 * Pow2(k - 1)

UsizeMod == Pow2(UsizeBits)

\* x reduced to the range of usize (wrapping arithmetic of a release build)
Wrap(x) == x % UsizeMod

\* does the mathematical value x fall outside usize (debug build panics)
Overflows(x) == x < 0 \/ x >= UsizeMod

\* ----------------------------------------------------------------- digests
\* Output<D> values.  The digest primitive is collision free: the output of
\* finalize is determined by, and determines, the sequence of blocks fed.
Default == [k |-> "zero", id |-> "", in |-> <<>>]

\* a digest the caller computed over the data of a leaf
LeafDigest(n) == [k |-> "leaf", id |-> n, in |-> <<>>]

\* the digests callers hand in: two distinct sample values
LeafDigests == {LeafDigest("a"), LeafDigest("b")}

\* D::new()
DNew == <<>>

\* d.update(bytes)
DUpdate(d, bytes) == Append(d, bytes)

\* d.finalize()
DFinalize(d) == [k |-> "hash", id |-> "", in |-> d]

\* ------------------------------------------------------------------ leaves
DataValues == {"t"}

LeafNew(hash, data) == [hash |-> hash, data |-> data]

Leaves == {LeafNew(h, d) : h \in LeafDigests, d \in DataValues}

\* ------------------------------------------------------------ Vec helpers
\* Vec::insert(i, x), 0 <= i <= len
VecInsert(v, i, x) == SubSeq(v, 1, i) \o <<x>> \o SubSeq(v, i + 1, Len(v))

\* Vec::remove(i), 0 <= i < len
VecRemove(v, i) == SubSeq(v, 1, i) \o SubSeq(v, i + 2, Len(v))

\* Vec::resize(l, x)
VecResize(v, l, x) ==
    IF l <= Len(v) THEN SubSeq(v, 1, l)
    ELSE v \o [n \in 1..(l - Len(v)) |-> x]

\* Vec::truncate(l)
VecTruncate(v, l) == IF l <= Len(v) THEN SubSeq(v, 1, l) ELSE v

\* ------------------------------------------------------ index arithmetic
\* Each returns [v |-> the usize result, panic |-> the call panicked,
\* under |-> a subtraction went below zero]; oc is the build's
\* overflow-checks setting.

leaf_parent(nlen, i, oc) ==
    LET s == (nlen \div 2) + (i \div 2)
    IN  [v |-> Wrap(s - 1 + UsizeMod), panic |-> oc /\ Overflows(s - 1),
         under |-> s - 1 < 0]

node_parent(i, oc) ==
    [v |-> Wrap(i - 1 + UsizeMod) \div 2, panic |-> oc /\ Overflows(i - 1),
     under |-> i - 1 < 0]

left_child_node(i, oc) ==
    [v |-> Wrap(i * 2 + 1), panic |-> oc /\ Overflows(i * 2 + 1),
     under |-> FALSE]

left_child_leaf(nlen, i, oc) ==
    LET d == i - (nlen \div 2)
    IN  [v |-> Wrap(Wrap(d + UsizeMod) * 2),
         panic |-> oc /\ (Overflows(d) \/ Overflows(d * 2)),
         under |-> d < 0]

\* ------------------------------------------------------------ rehash engine
\* self is the struct with the outcome of the call so far: the fields
\* nodes and leaves, panicked, and a log of what the call did: visited (the
\* arguments of its rehash_node calls, in order), starts (the value of
\* start at each pass of the loop of rehash_nodes) and underflow (one of
\* its subtractions went below zero).  A panic stops the call; the fields
\* keep the values they had at the panicking statement.
Panic(self) == [self EXCEPT !.panicked = TRUE]

\* the call evaluated r, the result of an index function
Noted(self, r) == [self EXCEPT !.underflow = @ \/ r.under]

\* slice indexing v[i]: panics when i is out of bounds
InBounds(v, i) == i < Len(v)

rehash_node(self0, i, oc) ==
    LET self == [self0 EXCEPT !.visited = Append(@, i)]
        nlen == Len(self.nodes)
        llen == Len(self.leaves)
        c    == i * 2 + 1
    IN  IF oc /\ Overflows(c) THEN Panic(self)
        ELSE IF Wrap(c) >= nlen
        THEN \* Our children are leaves.
             LET jr == left_child_leaf(nlen, i, oc)
                 j  == jr.v
                 s1 == Noted(self, jr)
                 d1 == IF j < llen
                       THEN DUpdate(DNew, self.leaves[j + 1].hash) ELSE DNew
                 d2 == IF j + 1 < llen
                       THEN DUpdate(d1, self.leaves[j + 2].hash) ELSE d1
             IN  IF jr.panic \/ ~InBounds(self.nodes, i) THEN Panic(s1)
                 ELSE [s1 EXCEPT !.nodes[i + 1] = DFinalize(d2)]
        ELSE \* Our children are nodes.
             LET jr == left_child_node(i, oc)
                 j  == jr.v
             IN  IF jr.panic \/ ~InBounds(self.nodes, j)
                       \/ ~InBounds(self.nodes, j + 1)
                       \/ ~InBounds(self.nodes, i)
                 THEN Panic(self)
                 ELSE [self EXCEPT !.nodes[i + 1] =
                          DFinalize(DUpdate(DUpdate(DNew, self.nodes[j + 1]),
                                            self.nodes[j + 2]))]

\* for i in (start..end).rev() { self.rehash_node(i) }
RECURSIVE rehash_range(_, _, _, _)
rehash_range(self, start, end, oc) ==
    IF start >= end \/ self.panicked THEN self
    ELSE rehash_range(rehash_node(self, end - 1, oc), start, end - 1, oc)

\* rehash_done leaving the loop one level late
rehash_done_late(start) == start = 1

\* the exit test of the loop of rehash_nodes
rehash_done(start) == start = 0

RECURSIVE rehash_nodes(_, _, _, _)
rehash_nodes(self, start, end, oc) ==
    LET s0 == [self EXCEPT !.starts = Append(@, start)]
        s1 == rehash_range(s0, start, end, oc)
        ps == node_parent(start, oc)
        pe == node_parent(end, oc)
        s2 == Noted(s1, ps)
        s3 == Noted(s2, pe)
    IN  IF s1.panicked \/ rehash_done(start) THEN s1
        ELSE IF ps.panic THEN Panic(s2)
        ELSE IF pe.panic THEN Panic(s3)
        ELSE rehash_nodes(s3, ps.v, pe.v, oc)

\* ---------------------------------------------------------- tree operations
new == [nodes |-> <<>>, leaves |-> <<>>, panicked |-> FALSE,
        visited |-> <<>>, starts |-> <<>>, underflow |-> FALSE]

hash(self) == IF self.nodes = <<>> THEN Default ELSE self.nodes[1]

\* insert_grows with the threshold one leaf early
insert_grows_early(self) == Len(self.leaves) = Len(self.nodes) + 1

\* the resize branch of insert is taken
insert_grows(self) == Len(self.leaves) = Len(self.nodes) + 2

\* the new length of nodes in the resize branch of insert
insert_grow_len(self) == Len(self.nodes) + Len(self.leaves) * 2

insert(self, i, leaf, oc) ==
    IF i > Len(self.leaves) THEN Panic(self)
    ELSE LET s1 == [self EXCEPT !.leaves = VecInsert(@, i, leaf)]
         IN  IF insert_grows(s1)
             THEN LET l  == insert_grow_len(s1)
                      s2 == [s1 EXCEPT !.nodes = VecResize(@, l, Default)]
                  IN  rehash_nodes(s2, 0, l, oc)
             ELSE rehash_nodes(s1, i, Len(s1.nodes), oc)

\* the shrink branch of remove is taken
remove_shrinks(self) == Len(self.leaves) = (Len(self.nodes) + 1) \div 2

\* remove_clear without the clear
remove_clear_skip(self) == self

\* the branch of remove taken when the last leaf was removed
remove_clear(self) == [self EXCEPT !.nodes = <<>>]

\* remove_in_range taking the position one past the last leaf as well
remove_in_range_lax(self, i) == i <= Len(self.leaves)

\* Vec::remove(i) accepts the position
remove_in_range(self, i) == i < Len(self.leaves)

remove(self, i, oc) ==
    IF ~remove_in_range(self, i) THEN Panic(self)
    ELSE LET s1 == [self EXCEPT !.leaves = VecRemove(@, i)]
         IN  IF s1.leaves = <<>> THEN remove_clear(s1)
             ELSE IF remove_shrinks(s1)
             THEN LET l  == Len(s1.nodes) - Len(s1.leaves)
                      s2 == [s1 EXCEPT !.nodes = VecTruncate(@, Wrap(l + UsizeMod)),
                                       !.underflow = @ \/ l < 0]
                  IN  IF oc /\ Overflows(l) THEN Panic(s2)
                      ELSE rehash_nodes(s2, 0, Wrap(l + UsizeMod), oc)
             ELSE LET lp == leaf_parent(Len(s1.nodes), i, oc)
                      s2 == Noted(s1, lp)
                  IN  IF lp.panic THEN Panic(s2)
                      ELSE rehash_nodes(s2, lp.v, Len(s1.nodes), oc)

\* replace_band running to the end of nodes, as the band of insert does
replace_band_tail(self, j) == [start |-> j, end |-> Len(self.nodes)]

\* the band replace hands to rehash_nodes, from the parent j of leaf i
replace_band(self, j) == [start |-> j, end |-> j]

replace(self, i, leaf, oc) ==
    IF i >= Len(self.leaves) THEN Panic(self)
    ELSE LET s1 == [self EXCEPT !.leaves[i + 1] = leaf]
             j  == leaf_parent(Len(s1.nodes), i, oc)
             b  == replace_band(s1, j.v)
             s2 == Noted(s1, j)
         IN  IF j.panic THEN Panic(s2)
             ELSE rehash_nodes(s2, b.start, b.end, oc)

push(self, leaf, oc) == insert(self, Len(self.leaves), leaf, oc)

\* ---------------------------------------------------------------- the state
VARIABLES
    nodes,            \* MerkleTree::nodes
    leaves,           \* MerkleTree::leaves
    panicked,         \* the last call unwound with a panic
    overflow_checks,  \* the build panics on arithmetic overflow (else wraps)
    op                \* the last call: its name, position and whether the
                      \* position was in range

vars == <<nodes, leaves, panicked, overflow_checks, op>>

\* the struct as a call finds it
Self == [new EXCEPT !.nodes = nodes, !.leaves = leaves]

Call(name, i, in_range, res) ==
    /\ nodes' = res.nodes
    /\ leaves' = res.leaves
    /\ panicked' = res.panicked
    /\ op' = [name |-> name, i |-> i, in_range |-> in_range]
    /\ UNCHANGED overflow_checks

Init ==
    /\ nodes = new.nodes
    /\ leaves = new.leaves
    /\ panicked = new.panicked
    /\ overflow_checks \in BOOLEAN
    /\ op = [name |-> "new", i |-> 0, in_range |-> TRUE]

Insert ==
    /\ Len(leaves) < MaxLeaves
    /\ \E i \in 0..(Len(leaves) + 1), leaf \in Leaves :
          Call("insert", i, i <= Len(leaves),
               insert(Self, i, leaf, overflow_checks))

Remove ==
    \E i \in 0..Len(leaves) :
       Call("remove", i, i < Len(leaves), remove(Self, i, overflow_checks))

Replace ==
    \E i \in 0..Len(leaves), leaf \in Leaves :
       Call("replace", i, i < Len(leaves),
            replace(Self, i, leaf, overflow_checks))

Push ==
    /\ Len(leaves) < MaxLeaves
    /\ \E leaf \in Leaves :
          Call("push", Len(leaves), TRUE, push(Self, leaf, overflow_checks))

\* hash() reads nodes[0] only when nodes is not empty: it cannot panic and
\* changes no field
Hash ==
    /\ nodes = <<>> \/ InBounds(nodes, 0)
    /\ Call("hash", 0, TRUE, Self)

Next == Insert \/ Remove \/ Replace \/ Push \/ Hash

Spec == Init /\ [][Next]_vars

\* ================================================================== claims
\* hash() of the tree in the current state
Root == hash(Self)

\* the struct t as the next call finds it
Next_self(t) == [new EXCEPT !.nodes = t.nodes, !.leaves = t.leaves]

\* the last call was a mutating call that returned to its caller
Returned ==
    /\ op.name \in {"insert", "remove", "replace", "push"}
    /\ ~panicked

\* ------------------------------------------------- the full-rebuild oracle
\* digest of the blocks of seq, fed in order
H(seq) == DFinalize(seq)

\* the digests of the leaves j and j+1 of lv that exist (0-based j)
PairInputs(lv, j) ==
    (IF j < Len(lv) THEN <<lv[j + 1].hash>> ELSE <<>>)
    \o (IF j + 1 < Len(lv) THEN <<lv[j + 2].hash>> ELSE <<>>)

\* the least power of two that is >= n, from p
RECURSIVE PowerOfTwoFrom(_, _)
PowerOfTwoFrom(p, n) == IF p >= n THEN p ELSE PowerOfTwoFrom(2 * p, n)

\* the leaf-parent row of the tree over lv: one slot per pair of leaves,
\* filled up to a full level
LeafParentRow(lv) ==
    [k \in 1..PowerOfTwoFrom(1, (Len(lv) + 1) \div 2) |->
        H(PairInputs(lv, 2 * (k - 1)))]

\* the level above row: each node the digest of its two children
LevelAbove(row) ==
    [k \in 1..(Len(row) \div 2) |-> H(<<row[2 * k - 1], row[2 * k]>>)]

RECURSIVE RootOfRow(_)
RootOfRow(row) == IF Len(row) = 1 THEN row[1] ELSE RootOfRow(LevelAbove(row))

\* the root of a tree built from scratch over lv
RebuildRoot(lv) ==
    IF Len(lv) <= 1 THEN Default ELSE RootOfRow(LeafParentRow(lv))

\* C1: after any sequence of in-range calls, hash() equals the root of a
\* tree rebuilt bottom-up from the current leaf sequence.
C1_IncrementalEquivalence == Returned => Root = RebuildRoot(leaves)

\* C2: every call whose position is in range completes normally; only
\* out-of-range positions fail.
C2_InRangeCompletes == op.in_range => ~panicked

\* the digest node i should hold: of its two leaves that exist when it is
\* a leaf parent, of its two child nodes otherwise; no value when a child
\* node is missing
ChildrenDigest(i) ==
    IF 2 * i + 1 >= Len(nodes)
    THEN {H(PairInputs(leaves, (i - (Len(nodes) \div 2)) * 2))}
    ELSE IF 2 * i + 2 < Len(nodes)
    THEN {H(<<nodes[2 * i + 2], nodes[2 * i + 3]>>)}
    ELSE {}

\* C3: after a mutating call returns, every entry of nodes is the digest of
\* its current children, fed left then right.
C3_NoStaleDigest ==
    Returned => \A i \in 0..(Len(nodes) - 1) : nodes[i + 1] \in ChildrenDigest(i)

\* C4: from the empty tree, insert(0, h0) then insert(1, h1) gives
\* hash() = digest(h0 || h1).
C4_TwoLeafTree ==
    [][(/\ op.name = "insert" /\ op.i = 0 /\ Len(leaves) = 1 /\ ~panicked
        /\ op'.name = "insert" /\ op'.i = 1)
       => Root' = H(<<leaves[1].hash, leaves'[2].hash>>)]_vars

\* the node index leaf_parent gives leaf i in the current state
LeafParent(i) == (Len(nodes) \div 2) + (i \div 2) - 1

\* nodes[i], or no value when i is no index of nodes
NodeAt(i) == IF i \in 0..(Len(nodes) - 1) THEN {nodes[i + 1]} ELSE {}

\* C5: with exactly three leaves h0, h1, h2 the parent of the trailing leaf
\* holds digest(h2), the parent of leaves 0 and 1 holds digest(h0 || h1),
\* and hash() combines the two parents.
C5_OddLeafCount ==
    (Returned /\ Len(leaves) = 3) =>
        LET p01 == H(<<leaves[1].hash, leaves[2].hash>>)
            p2  == H(<<leaves[3].hash>>)
        IN  /\ NodeAt(LeafParent(2)) = {p2}
            /\ NodeAt(LeafParent(0)) = {p01}
            /\ Root = H(<<p01, p2>>)

\* C6: inserting one leaf into the empty tree (insert(0, leaf) or
\* push(leaf)) leaves nodes empty and hash() the default digest, which is
\* not the digest of the leaf.
C6_SingleLeafTree ==
    [][(/\ leaves = <<>>
        /\ op'.name \in {"insert", "push"} /\ op'.in_range)
       => /\ Len(leaves') = 1
          /\ ~panicked'
          /\ nodes' = <<>>
          /\ Root' = Default
          /\ Root' # leaves'[1].hash]_vars

C6_Witness ==
    /\ op.name \in {"insert", "push"} /\ op.in_range
    /\ Len(leaves) = 1 /\ nodes = <<>> /\ Root = Default

\* C7: nodes is empty if and only if leaves holds 0 or 1 elements.
C7_NodesEmptyIff == Returned => ((nodes = <<>>) <=> (Len(leaves) <= 1))

\* C8: whenever the tree holds no leaves, freshly constructed or after the
\* last leaf was removed, nodes is empty and hash() is the default digest.
C8_EmptyTree == (leaves = <<>>) => (nodes = <<>> /\ Root = Default)

C8_Witness == op.name = "remove" /\ op.in_range /\ leaves = <<>> /\ ~panicked

\* the node indices on the path from node j up to the root
RECURSIVE PathToRoot(_)
PathToRoot(j) ==
    IF j < 0 THEN {}
    ELSE IF j = 0 THEN {0}
    ELSE {j} \cup PathToRoot((j - 1) \div 2)

\* C9: an in-range replace(i, leaf) keeps the leaf count, the length of
\* nodes, every leaf but leaf i, and every node off the path from
\* leaf_parent(i) to the root.
C9_LocalizedReplace ==
    [][(op'.name = "replace" /\ op'.in_range)
       => /\ Len(leaves') = Len(leaves)
          /\ Len(nodes') = Len(nodes)
          /\ \A k \in 1..Len(leaves) : k # op'.i + 1 => leaves'[k] = leaves[k]
          /\ \A n \in 0..(Len(nodes) - 1) :
                n \notin PathToRoot(LeafParent(op'.i))
                   => nodes'[n + 1] = nodes[n + 1]]_vars

C9_Witness ==
    /\ op.name = "replace" /\ op.in_range /\ ~panicked
    /\ Len(leaves) >= 2
    /\ \E n \in 0..(Len(nodes) - 1) : n \notin PathToRoot(LeafParent(op.i))

\* C10: insert(i, leaf) immediately followed by remove(i) leaves hash() as
\* it was before the insert.
C10_InsertRemoveInverse ==
    \A i \in 0..Len(leaves), leaf \in Leaves :
        LET t1 == insert(Self, i, leaf, overflow_checks)
            t2 == remove(Next_self(t1), i, overflow_checks)
        IN  (~t1.panicked /\ ~t2.panicked) => hash(t2) = Root

\* ------------------------------------------------------ claims C11 to C20
\* the tree a caller gets by pushing the leaves of lv, one by one, on a new
\* tree
RECURSIVE ByPushes(_)
ByPushes(lv) ==
    IF lv = <<>> THEN new
    ELSE push(Next_self(ByPushes(SubSeq(lv, 1, Len(lv) - 1))),
              lv[Len(lv)], overflow_checks)

\* every push of ByPushes(lv) returned
RECURSIVE PushesReturn(_)
PushesReturn(lv) ==
    lv = <<>> \/ (/\ ~ByPushes(lv).panicked
                  /\ PushesReturn(SubSeq(lv, 1, Len(lv) - 1)))

\* C11: hash() depends only on the current sequence of leaf digests: the
\* tree reached by any calls has the hash() of the tree that reaches the
\* same leaves by pushing them in order.
C11_HistoryIndependence ==
    (~panicked /\ PushesReturn(leaves)) => Root = hash(ByPushes(leaves))

\* C12: a call with a position out of range (insert with i > leaf count,
\* remove or replace with i >= leaf count) fails and leaves the leaves, the
\* nodes and so hash() as they were.
C12_OutOfRangeFailsBeforeMutating ==
    [][(op'.name \in {"insert", "remove", "replace"} /\ ~op'.in_range)
       => /\ panicked'
          /\ leaves' = leaves
          /\ nodes' = nodes
          /\ Root' = Root]_vars

C12_Witness ==
    /\ op.name \in {"insert", "remove", "replace"} /\ ~op.in_range
    /\ panicked
    /\ leaves # <<>> /\ nodes # <<>>

\* n is 0 or 2^k - 1 for some k >= 1
CompleteTreeSize(n) == n = 0 \/ PowerOfTwoFrom(1, n + 1) = n + 1

\* the step went through the resize branch of insert or of remove
ResizeBranch ==
    \/ /\ op'.name \in {"insert", "push"} /\ op'.in_range
       /\ Len(leaves') = Len(nodes) + 2
    \/ /\ op'.name = "remove" /\ op'.in_range
       /\ \/ leaves' = <<>>
          \/ Len(leaves') = (Len(nodes) + 1) \div 2

\* C13: nodes encodes a complete binary tree: its length is 0 or 2^k - 1,
\* it changes only in the resize branches of insert and remove, and
\* leaf_parent(i) is an index of nodes for every leaf i.
C13_CompleteTreeShape ==
    /\ [](~panicked =>
            /\ CompleteTreeSize(Len(nodes))
            /\ \A i \in 0..(Len(leaves) - 1) :
                  Len(leaves) >= 2 => LeafParent(i) \in 0..(Len(nodes) - 1))
    /\ [][Len(nodes') # Len(nodes) => ResizeBranch]_vars

\* the node indices on the path from node j to the root, bottom-up
RECURSIVE PathSeq(_)
PathSeq(j) ==
    IF j < 0 THEN <<>>
    ELSE IF j = 0 THEN <<0>>
    ELSE <<j>> \o PathSeq((j - 1) \div 2)

\* the digest node i of the tree t should hold (see ChildrenDigest)
ChildrenDigestIn(t, i) ==
    IF 2 * i + 1 >= Len(t.nodes)
    THEN {H(PairInputs(t.leaves, (i - (Len(t.nodes) \div 2)) * 2))}
    ELSE IF 2 * i + 2 < Len(t.nodes)
    THEN {H(<<t.nodes[2 * i + 2], t.nodes[2 * i + 3]>>)}
    ELSE {}

\* C14: an in-range replace(i, leaf) rehashes leaf_parent(i) and each of its
\* ancestors up to the root, bottom-up, each once and nothing else, and
\* each of them then holds the digest of its current children.
C14_ReplaceRehashesPath ==
    \A i \in 0..(Len(leaves) - 1), leaf \in Leaves :
        LET t == replace(Self, i, leaf, overflow_checks)
        IN  ~t.panicked =>
               /\ t.visited = PathSeq(LeafParent(i))
               /\ \A n \in 0..(Len(t.nodes) - 1) :
                     n \in PathToRoot(LeafParent(i))
                        => t.nodes[n + 1] \in ChildrenDigestIn(t, n)

\* the tree t with leaf inserted at position i of its leaves
WithLeaf(t, i, leaf) == [t EXCEPT !.leaves = VecInsert(@, i, leaf)]

\* C15: an insert(i, leaf) that does not resize nodes recomputes the band
\* rehash_nodes(leaf_parent(i), nodes length): its rehash_node calls start
\* from leaf_parent(i), the parent of the new position, and go on through
\* the ancestor bands to the root.
C15_InsertBandFromLeafParent ==
    \A i \in 0..Len(leaves), leaf \in Leaves :
        LET s1 == WithLeaf(Self, i, leaf)
            t  == insert(Self, i, leaf, overflow_checks)
            r  == rehash_nodes(s1, LeafParent(i), Len(nodes), overflow_checks)
        IN  (~insert_grows(s1) /\ LeafParent(i) >= 0)
               => /\ t.starts # <<>> /\ t.starts[1] = LeafParent(i)
                  /\ t.visited = r.visited
                  /\ t.nodes = r.nodes

\* C16: for the current length of nodes and every leaf position i, the two
\* leaves of a pair have the same leaf_parent, and left_child_leaf of
\* leaf_parent(i) is 2 * (i div 2), the left leaf of the pair of i.
C16_LeafIndexRoundTrip ==
    \A i \in 0..(Len(leaves) - 1) :
        LET n  == Len(nodes)
            p  == leaf_parent(n, i, overflow_checks)
            q  == leaf_parent(n, 2 * (i \div 2), overflow_checks)
            q1 == leaf_parent(n, 2 * (i \div 2) + 1, overflow_checks)
            l  == left_child_leaf(n, p.v, overflow_checks)
        IN  Len(leaves) >= 2 =>
               /\ ~p.under /\ ~l.under
               /\ q.v = q1.v
               /\ l.v = 2 * (i \div 2)

\* the nodes on the paths from the nodes of [start, end) up to the root
BandPaths(start, end) == UNION {PathToRoot(n) : n \in start..(end - 1)}

\* v lists every element of S exactly once
ListsOnce(v, S) ==
    /\ {v[k] : k \in 1..Len(v)} = S
    /\ \A k, m \in 1..Len(v) : v[k] = v[m] => k = m

\* no node of v comes before one of its descendants
BottomUp(v) ==
    \A k, m \in 1..Len(v) :
        (k < m /\ v[k] # v[m]) => v[k] \notin PathToRoot(v[m])

\* C17: rehash_nodes(start, end) with 0 <= start <= end <= nodes length
\* calls rehash_node exactly once on every node of the paths from the
\* nodes of [start, end) to the root, bottom-up, and on no other index.
C17_RehashBandPaths ==
    \A end \in 0..Len(nodes) : \A start \in 0..end :
        LET t == rehash_nodes(Self, start, end, overflow_checks)
        IN  ~t.panicked =>
               /\ ListsOnce(t.visited, BandPaths(start, end))
               /\ BottomUp(t.visited)

\* the outcomes of the in-range mutating calls a caller can make in the
\* current state
CallOutcomes ==
    {insert(Self, i, leaf, overflow_checks) :
        i \in 0..Len(leaves), leaf \in Leaves}
    \cup {remove(Self, i, overflow_checks) : i \in 0..(Len(leaves) - 1)}
    \cup {replace(Self, i, leaf, overflow_checks) :
             i \in 0..(Len(leaves) - 1), leaf \in Leaves}

\* C18: whenever a public operation calls rehash_node(i) and the call takes
\* the children-are-nodes branch (2*i+1 < nodes length), both child
\* indices 2*i+1 and 2*i+2 are indices of nodes.
C18_FullPairOfChildNodes ==
    \A t \in CallOutcomes : \A k \in 1..Len(t.visited) :
        LET i == t.visited[k]
        IN  2 * i + 1 < Len(t.nodes) => 2 * i + 2 < Len(t.nodes)

\* each element of v is less than the one before it
StrictlyDecreasing(v) == \A k \in 1..(Len(v) - 1) : v[k + 1] < v[k]

\* node_parent, applied at most fuel times, takes s to 0
RECURSIVE ReachesRoot(_, _)
ReachesRoot(s, fuel) ==
    \/ s = 0
    \/ fuel > 0 /\ ReachesRoot(node_parent(s, FALSE).v, fuel - 1)

\* the loop of rehash_nodes in the call with outcome t came to an end
Terminates(t) ==
    /\ StrictlyDecreasing(t.starts)
    /\ Len(t.starts) <= UsizeBits + 1
    /\ t.starts # <<>> => ReachesRoot(t.starts[1], UsizeBits)
    /\ (t.starts # <<>> /\ ~t.panicked) => t.starts[Len(t.starts)] = 0

\* the leaf handed to insert and replace where only the loop control of
\* rehash_nodes is looked at: a leaf's value enters digests, never an index
SomeLeaf == CHOOSE leaf \in Leaves : TRUE

\* C19: every rehash_nodes call that insert, remove or replace issues
\* terminates: start goes down with every pass of the loop, node_parent
\* takes the first start to 0 in at most one application per bit of usize,
\* and the loop of a call that returns has ended with start = 0.
C19_RehashTerminates ==
    /\ Len(leaves) < MaxLeaves =>
          \A i \in 0..Len(leaves) :
             Terminates(insert(Self, i, SomeLeaf, overflow_checks))
    /\ \A i \in 0..(Len(leaves) - 1) :
          Terminates(remove(Self, i, overflow_checks))
    /\ \A i \in 0..(Len(leaves) - 1) :
          Terminates(replace(Self, i, SomeLeaf, overflow_checks))

\* the call with outcome t returned after three passes or more of the loop,
\* having rehashed a node
LoopRan(t) ==
    /\ ~t.panicked
    /\ Len(t.starts) >= 3
    /\ t.starts[Len(t.starts)] = 0
    /\ t.visited # <<>>

C19_Witness ==
    \/ /\ Len(leaves) < MaxLeaves
       /\ \E i \in 0..Len(leaves) :
             LoopRan(insert(Self, i, SomeLeaf, overflow_checks))
    \/ \E i \in 0..(Len(leaves) - 1) :
          LoopRan(remove(Self, i, overflow_checks))
    \/ \E i \in 0..(Len(leaves) - 1) :
          LoopRan(replace(Self, i, SomeLeaf, overflow_checks))

\* C20: in no in-range insert, remove or replace does a subtraction of
\* leaf_parent, node_parent, left_child_leaf or of the shrink length go
\* below zero.
C20_NoUnderflow == \A t \in CallOutcomes : ~t.underflow

====
